---- MODULE Spec2Model ----
(***************************************************************************)
(* A model of classify_tickets.py: the rule-based scorer                   *)
(* (calculate_heuristic_scores), weak-label training                       *)
(* (train_ml_classifier), the gated predictor (predict_probabilities) and  *)
(* the batch loop (classify_tickets).                                      *)
(*                                                                         *)
(* Text.  A text is a sequence of lexical tokens: a maximal run of \w      *)
(* characters (a word), one non-word non-space character (punctuation),    *)
(* or one whitespace character.  A regular expression's \b lies exactly    *)
(* between a word token and its neighbour, so a pattern \bkw\b occurs      *)
(* where the tokens of kw occur as a contiguous run of whole tokens.       *)
(*                                                                         *)
(* Numbers.  Scores are exact rationals in units of 1/400; a distribution  *)
(* is a map of numerators over one denominator.  Floating-point rounding   *)
(* is not modelled.                                                        *)
(***************************************************************************)
EXTENDS Integers, Sequences, FiniteSets, TLC

---------------------------------------------------------------------------
(* Configuration (lines 46-48). *)

LABEL_ORDER ==
  << "Billing and Payment", "Technical Issue", "Product Usage",
     "Account and Access", "General Feedback" >>

Labels == { LABEL_ORDER[i] : i \in 1..Len(LABEL_ORDER) }

\* CONFIDENCE_THRESHOLD = 0.55 and FALLBACK_MARGIN = 0.05, in hundredths
CONFIDENCE_THRESHOLD == 55

FALLBACK_MARGIN == 5

---------------------------------------------------------------------------
(* Generic helpers. *)

RECURSIVE SumSeq(_)
SumSeq(s) == IF s = << >> THEN 0 ELSE Head(s) + SumSeq(Tail(s))

Max2(a, b) == IF a >= b THEN a ELSE b

Range(s) == { s[i] : i \in 1..Len(s) }

---------------------------------------------------------------------------
(* Tokens. *)

SP == " "

IsSpace(t) == t \in { " ", "\t", "\n" }

IsPunct(t) == t \in { "'", ".", ",", "/", "?", "-", "!" }

IsWord(t) == ~IsSpace(t) /\ ~IsPunct(t)

\* str.lower() on a token of the vocabulary
Lower(t) ==
  CASE t = "API" -> "api"
    [] t = "Invoice" -> "invoice"
    [] t = "Payment" -> "payment"
    [] t = "Getting" -> "getting"
    [] t = "Not" -> "not"
    [] t = "Bug" -> "bug"
    [] t = "How" -> "how"
    [] t = "Help" -> "help"
    [] t = "None" -> "none"
    [] t = "CSV" -> "csv"
    [] t = "Cannot" -> "cannot"
    [] t = "Love" -> "love"
    [] t = "Great" -> "great"
    [] t = "Forgot" -> "forgot"
    [] t = "My" -> "my"
    [] t = "I" -> "i"
    [] OTHER -> t

\* the vocabulary's tokens that properly extend a word (word is a proper
\* prefix of the token): "error" of "errors", ...
ProperPrefixes(t) ==
  CASE t = "errors" -> { "error" }
    [] t = "bugs" -> { "bug" }
    [] t = "crashes" -> { "crash" }
    [] t = "crashed" -> { "crash" }
    [] t = "invoices" -> { "invoice" }
    [] t = "reports" -> { "report" }
    [] t = "loading" -> { "load" }
    [] t = "passwords" -> { "password" }
    [] t = "exports" -> { "export" }
    [] OTHER -> { }

StartsWith(t, p) == t = p \/ p \in ProperPrefixes(t)

\* a longer word of the vocabulary that begins with word t, where there is
\* one
Extension(t) ==
  CASE t = "error" -> "errors"
    [] t = "bug" -> "bugs"
    [] t = "crash" -> "crashes"
    [] t = "invoice" -> "invoices"
    [] t = "report" -> "reports"
    [] t = "password" -> "passwords"
    [] t = "export" -> "exports"
    [] OTHER -> t

\* "a b" and "a b c" as token sequences
W2(a, b) == << a, SP, b >>

W3(a, b, c) == << a, SP, b, SP, c >>

\* "can't", "won't", ... : word, apostrophe, word
Apos(a, b) == << a, "'", b >>

---------------------------------------------------------------------------
(* Raw field values: None, NaN or a string (a token sequence). *)

PyNone == [ kind |-> "none", toks |-> << >> ]

PyNaN == [ kind |-> "nan", toks |-> << >> ]

Str(toks) == [ kind |-> "str", toks |-> toks ]

\* str(value): lines 398-399, 452, 508-509
PyStr(v) ==
  CASE v.kind = "none" -> Str(<< "None" >>)
    [] v.kind = "nan" -> Str(<< "nan" >>)
    [] OTHER -> v

\* str.strip(): drop leading and trailing whitespace tokens
RECURSIVE LStrip(_)
LStrip(s) ==
  IF s = << >> THEN << >>
  ELSE IF IsSpace(Head(s)) THEN LStrip(Tail(s)) ELSE s

RECURSIVE RStrip(_)
RStrip(s) ==
  IF s = << >> THEN << >>
  ELSE IF IsSpace(s[Len(s)]) THEN RStrip(SubSeq(s, 1, Len(s) - 1)) ELSE s

Strip(s) == RStrip(LStrip(s))

\* re.sub(r'\s+', ' ', text): each run of whitespace becomes one space
RECURSIVE CollapseWs(_)
CollapseWs(s) ==
  IF s = << >> THEN << >>
  ELSE IF IsSpace(Head(s))
       THEN << SP >> \o CollapseWs(LStrip(Tail(s)))
       ELSE << Head(s) >> \o CollapseWs(Tail(s))

\* a text left in the case it came in
KeepCase(s) == s

LowerAll(s) == [ i \in 1..Len(s) |-> Lower(s[i]) ]

\* normalize_text, lines 262-273
normalize_text(v) ==
  IF v.kind \in { "none", "nan" } \/ v.toks = << >>
  THEN << >>
  ELSE CollapseWs(Strip(LowerAll(v.toks)))

\* len(text.split()): the whitespace-separated chunks of a normalized text
SplitLen(s) ==
  IF s = << >> THEN 0
  ELSE 1 + Cardinality({ i \in 1..Len(s) : IsSpace(s[i]) })

---------------------------------------------------------------------------
(* Keyword rule tables, lines 194-260.  A rule is a literal keyword (one   *)
(* token sequence) or a regular expression, given by the token sequences   *)
(* of its language that the vocabulary can form, tried in order.           *)

Lit(k) == [ alts |-> << k >>, weight |-> 1, is_regex |-> FALSE ]

Rx(alts) == [ alts |-> alts, weight |-> 3, is_regex |-> TRUE ]

BillingPositive ==
  << Lit(<<"invoice">>), Lit(<<"billing">>), Lit(<<"payment">>),
     Lit(<<"charge">>), Lit(<<"refund">>), Lit(<<"credit">>),
     Lit(<<"receipt">>), Lit(<<"subscription">>), Lit(<<"renewal">>),
     Lit(<<"proration">>), Lit(<<"vat">>), Lit(<<"tax">>),
     Lit(<<"overbilled">>), Lit(<<"declined">>),
     Lit(W2("failed", "payment")), Lit(W2("credit", "card")),
     Lit(W2("billing", "address")), Lit(<<"price">>), Lit(<<"cost">>),
     Lit(<<"fee">>), Lit(W2("upgrade", "cost")), Lit(<<"downgrade">>),
     Lit(W2("plan", "change")), Lit(W2("annual", "billing")) >>

BillingNegative ==
  << Lit(W3("not", "a", "billing")), Lit(W2("not", "billing")),
     Lit(W3("no", "billing", "issue")) >>

TechnicalLiterals ==
  << Lit(<<"bug">>), Lit(<<"error">>), Lit(<<"crash">>), Lit(<<"failure">>),
     Lit(<<"exception">>), Lit(W2("stack", "trace")), Lit(<<"broken">>),
     Lit(W2("ssl", "error")), Lit(W2("api", "error")), Lit(<<"webhook">>),
     Lit(<<"integration">>), Lit(W2("sso", "error")),
     Lit(W2("database", "error")) >>

\* lines 215-223, in order
TechnicalPatterns ==
  << \* \bfail(s|ed)?\s+to\s+load\b
     Rx(<< W3("fail", "to", "load"), W3("fails", "to", "load"),
           W3("failed", "to", "load") >>),
     \* \bdoes\s+not\s+load\b
     Rx(<< W3("does", "not", "load") >>),
     \* \b(can't|cannot|won't)\s+load\b
     Rx(<< Apos("can", "t") \o << SP, "load" >>, W2("cannot", "load"),
           Apos("won", "t") \o << SP, "load" >> >>),
     \* \b(spinner|spinning\s+wheel|loading\s+forever|stuck\s+loading)\b
     Rx(<< <<"spinner">>, W2("spinning", "wheel"), W2("loading", "forever"),
           W2("stuck", "loading") >>),
     \* \b(timeout|timed\s*out|latency)\b
     Rx(<< <<"timeout">>, W2("timed", "out"), <<"timedout">>,
           <<"latency">> >>),
     \* \b(crash(es|ed)?|freez(e|ing)|unresponsive)\b
     Rx(<< <<"crash">>, <<"crashes">>, <<"crashed">>, <<"freeze">>,
           <<"freezing">>, <<"unresponsive">> >>),
     \* \b(outage|incident|service\s+down)\b
     Rx(<< <<"outage">>, <<"incident">>, W2("service", "down") >>),
     \* \b(5\d{2}|4\d{2}|500|502|503|504|404|401|403)\b
     Rx(<< <<"500">>, <<"502">>, <<"503">>, <<"504">>, <<"404">>,
           <<"401">>, <<"403">>, <<"429">> >>),
     \* \b(error\s*code\s*\d+|exception|stack\s*trace)\b
     Rx(<< W3("error", "code", "500"), W3("error", "code", "404"),
           W3("error", "code", "7"), <<"exception">>,
           W2("stack", "trace"), <<"stacktrace">> >>) >>

TechnicalPositive == TechnicalLiterals \o TechnicalPatterns

TechnicalNegative ==
  << Lit(W3("not", "a", "bug")), Lit(W3("not", "an", "error")),
     Lit(W2("working", "fine")) >>

UsagePositive ==
  << Lit(W2("how", "to")), Lit(W3("how", "do", "i")), Lit(<<"tutorial">>),
     Lit(<<"guide">>), Lit(W2("best", "practice")), Lit(<<"example">>),
     Lit(<<"configure">>), Lit(<<"setup">>), Lit(W2("set", "up")),
     Lit(<<"export">>), Lit(<<"report">>),
     Lit(W2("dashboard", "customization")), Lit(<<"workflow">>) >>

UsageNegative ==
  << Lit(Apos("don", "t") \o << SP, "need", SP, "help" >>),
     Lit(W3("figured", "it", "out")) >>

AccountPositive ==
  << Lit(<<"login">>), Lit(<<"password">>), Lit(W2("reset", "password")),
     Lit(W2("forgot", "password")), Lit(<<"mfa">>), Lit(<<"2fa">>),
     Lit(<<"sso">>), Lit(W2("single", "sign")), Lit(<<"role">>),
     Lit(<<"permission">>), Lit(W2("access", "denied")),
     Lit(W2("cannot", "access")), Lit(W2("locked", "out")),
     Lit(W2("account", "locked")), Lit(<<"invite">>),
     Lit(W2("user", "management")), Lit(<<"deactivate">>), Lit(<<"seat">>),
     Lit(<<"license">>), Lit(W2("org", "admin")), Lit(<<"tenant">>),
     Lit(<<"unauthorized">>) >>

AccountNegative ==
  << Lit(W2("can", "access")), Lit(W2("login", "working")),
     Lit(W3("no", "access", "issues")) >>

FeedbackPositive ==
  << Lit(<<"love">>), Lit(<<"great">>), Lit(<<"awesome">>),
     Lit(<<"terrible">>), Lit(<<"hate">>), Lit(<<"suggestion">>),
     Lit(<<"feedback">>), Lit(<<"improvement">>), Lit(<<"complain">>),
     Lit(<<"complaint">>), Lit(<<"praise">>), Lit(<<"recommend">>),
     Lit(<<"review">>), Lit(W2("ui", "cluttered")),
     Lit(W2("pricing", "high")), Lit(<<"expensive">>),
     Lit(W2("feature", "missing")), Lit(W2("would", "like")),
     Lit(W3("wish", "you", "had")) >>

FeedbackNegative == << >>

\* self.keywords
Keywords(topic) ==
  CASE topic = "Billing and Payment" ->
         [ positive |-> BillingPositive, negative |-> BillingNegative ]
    [] topic = "Technical Issue" ->
         [ positive |-> TechnicalPositive, negative |-> TechnicalNegative ]
    [] topic = "Product Usage" ->
         [ positive |-> UsagePositive, negative |-> UsageNegative ]
    [] topic = "Account and Access" ->
         [ positive |-> AccountPositive, negative |-> AccountNegative ]
    [] topic = "General Feedback" ->
         [ positive |-> FeedbackPositive, negative |-> FeedbackNegative ]

---------------------------------------------------------------------------
(* Matching. *)

\* the tokens of pat stand in text from position i on
MatchAt(pat, text, i) ==
  /\ i >= 1
  /\ i + Len(pat) - 1 <= Len(text)
  /\ \A j \in 1..Len(pat) : text[i + j - 1] = pat[j]

\* the first alternative that matches at i, or 0
FirstAlt(alts, text, i) ==
  IF \E a \in 1..Len(alts) : MatchAt(alts[a], text, i)
  THEN CHOOSE a \in 1..Len(alts) :
         /\ MatchAt(alts[a], text, i)
         /\ \A b \in 1..(a - 1) : ~MatchAt(alts[b], text, i)
  ELSE 0

\* len(re.findall(pattern, text)): non-overlapping matches, left to right
RECURSIVE CountFrom(_, _, _)
CountFrom(alts, text, i) ==
  IF i > Len(text) THEN 0
  ELSE LET a == FirstAlt(alts, text, i)
       IN  IF a = 0 THEN CountFrom(alts, text, i + 1)
           ELSE 1 + CountFrom(alts, text, i + Len(alts[a]))

CountMatches(alts, text) == CountFrom(alts, text, 1)

\* re.search(pattern, text)
Search(alts, text) ==
  \E i \in 1..Len(text) : \E a \in 1..Len(alts) : MatchAt(alts[a], text, i)

---------------------------------------------------------------------------
(* detect_negation, lines 275-281:                                         *)
(*   \b(?:not|no|can't|...)\s+(?:\w+\s+){0,2} + re.escape(keyword)         *)
(* The keyword has no trailing \b here: its last word may be the prefix of *)
(* a longer word of the text.                                              *)

negation_words ==
  << <<"not">>, <<"no">>, Apos("can", "t"), <<"cannot">>, <<"unable">>,
     Apos("isn", "t"), Apos("doesn", "t"), Apos("won", "t") >>

\* the keyword's tokens stand at p, the last one possibly extended
PrefixMatchAt(kw, text, p) ==
  /\ p >= 1
  /\ p + Len(kw) - 1 <= Len(text)
  /\ \A j \in 1..(Len(kw) - 1) : text[p + j - 1] = kw[j]
  /\ StartsWith(text[p + Len(kw) - 1], kw[Len(kw)])

\* n times (word, space) from position q on
WordsThenSpace(text, q, n) ==
  /\ q + 2 * n - 1 <= Len(text)
  /\ \A j \in 0..(n - 1) : IsWord(text[q + 2 * j]) /\ text[q + 2 * j + 1] = SP

NegatedFrom(cue, text, kw, i) ==
  /\ MatchAt(cue, text, i)
  /\ i + Len(cue) <= Len(text)
  /\ text[i + Len(cue)] = SP
  /\ \E n \in 0..2 :
       /\ WordsThenSpace(text, i + Len(cue) + 1, n)
       /\ PrefixMatchAt(kw, text, i + Len(cue) + 1 + 2 * n)

detect_negation(text, keyword) ==
  \E i \in 1..Len(text) : \E c \in 1..Len(negation_words) :
    NegatedFrom(negation_words[c], text, keyword, i)

---------------------------------------------------------------------------
(* The Product Usage override's detectors, lines 295-302 and 344-361. *)

how_to_cues ==
  << W2("how", "to"), W3("how", "do", "i"), <<"tutorial">>, <<"guide">>,
     W2("best", "practice"), <<"example">>, <<"configure">>, <<"setup">>,
     W2("set", "up") >>

\* n times (space, word) from position q on
SpaceThenWords(text, q, n) ==
  /\ q + 2 * n - 1 <= Len(text)
  /\ \A j \in 0..(n - 1) : text[q + 2 * j] = SP /\ IsWord(text[q + 2 * j + 1])

\* \bhelp( needed)?\b
has_generic_help(text) == \E i \in 1..Len(text) : text[i] = "help"

\* help(?:\s+needed)?(?:\s+\w+){0,4}\s+cue\b, from position i
HelpThenCue(text, cue, i) ==
  /\ text[i] = "help"
  /\ \E o \in { 0, 2 } :
       /\ o = 2 => MatchAt(<< SP, "needed" >>, text, i + 1)
       /\ \E n \in 0..4 :
            /\ SpaceThenWords(text, i + 1 + o, n)
            /\ MatchAt(<< SP >> \o cue, text, i + 1 + o + 2 * n)

\* \bcue(?:\s+\w+){0,4}\s+help(?:\s+needed)?\b, from position i
CueThenHelp(text, cue, i) ==
  /\ MatchAt(cue, text, i)
  /\ \E n \in 0..4 :
       /\ SpaceThenWords(text, i + Len(cue), n)
       /\ MatchAt(<< SP, "help" >>, text, i + Len(cue) + 2 * n)

has_how_to_near_help(text) ==
  /\ has_generic_help(text)
  /\ \E c \in 1..Len(how_to_cues) : \E i \in 1..Len(text) :
       HelpThenCue(text, how_to_cues[c], i) \/ CueThenHelp(text, how_to_cues[c], i)

\* lines 296-302: some regex rule of Technical Issue matches the combined text
has_technical_hard_cue(text) ==
  \E r \in 1..Len(TechnicalPositive) :
    /\ TechnicalPositive[r].is_regex
    /\ Search(TechnicalPositive[r].alts, text)

---------------------------------------------------------------------------
(* calculate_heuristic_scores, lines 283-389.  Scores are in units of      *)
(* 1/400, counts in halves, weights in tenths.                             *)

\* f"{subject_norm} {body_norm}".strip()
CombinedText(s, b) ==
  IF s = << >> THEN b ELSE IF b = << >> THEN s ELSE s \o << SP >> \o b

\* the lower weight for subjects of fewer than two chunks only
SubjectWeightBelowTwo(s) == IF SplitLen(s) < 2 THEN 3 ELSE 4

\* line 290, in tenths
SubjectWeight10(s) == IF SplitLen(s) <= 2 THEN 3 ELSE 4

\* line 291, in tenths
BodyWeight10(s) == 10 - SubjectWeight10(s)

\* a negated match counted like any other, in halves
NegatedCountKept(n) == 2 * n

\* lines 331 and 333: -matches * 0.5, in halves
NegatedCount2(n) == -n

\* the adjustment applied to every positive rule, in halves
EffectiveCount2AnyRule(rule, text) ==
  LET n == CountMatches(rule.alts, text)
  IN  IF n > 0 /\ detect_negation(text, rule.alts[1])
      THEN NegatedCount2(n)
      ELSE 2 * n

\* lines 319-333: the effective match count of a positive rule on one side,
\* in halves
EffectiveCount2(rule, text) ==
  LET n == CountMatches(rule.alts, text)
  IN  IF ~rule.is_regex /\ n > 0 /\ detect_negation(text, rule.alts[1])
      THEN NegatedCount2(n)
      ELSE 2 * n

\* line 336, in tenths
SubjectMultiplier10(topic) == IF topic = "Technical Issue" THEN 14 ELSE 10

\* lines 339-340
WeightedScore(topic, rule, s, b) ==
  ( EffectiveCount2(rule, s) * SubjectWeight10(s) * SubjectMultiplier10(topic)
    + EffectiveCount2(rule, b) * BodyWeight10(s) * 10 ) * rule.weight * 2

RECURSIVE PositiveSum(_, _, _, _)
PositiveSum(topic, rules, s, b) ==
  IF rules = << >> THEN 0
  ELSE WeightedScore(topic, Head(rules), s, b)
       + PositiveSum(topic, Tail(rules), s, b)

\* line 364
UsageOverride(s, b) ==
  LET combined_text == CombinedText(s, b)
  IN  /\ has_generic_help(combined_text)
      /\ has_technical_hard_cue(combined_text)
      /\ ~has_how_to_near_help(combined_text)

\* the halving applied to whichever topic is being scored
AfterOverrideAnyTopic(topic, score, s, b) ==
  IF UsageOverride(s, b) THEN score \div 2 ELSE score

\* lines 344-366
AfterOverride(topic, score, s, b) ==
  IF topic = "Product Usage" /\ UsageOverride(s, b)
  THEN score \div 2
  ELSE score

\* line 379: (subject_matches*subject_weight + body_matches*body_weight)
\*           * weight * 0.5
NegativePenalty(rule, s, b) ==
  ( CountMatches(rule.alts, s) * SubjectWeight10(s)
    + CountMatches(rule.alts, b) * BodyWeight10(s) ) * rule.weight * 20

RECURSIVE NegativeSum(_, _, _)
NegativeSum(rules, s, b) ==
  IF rules = << >> THEN 0
  ELSE NegativePenalty(Head(rules), s, b) + NegativeSum(Tail(rules), s, b)

\* the topic's score before the clamp of line 381
RawScore(topic, s, b) ==
  AfterOverride(topic, PositiveSum(topic, Keywords(topic).positive, s, b), s, b)
  - NegativeSum(Keywords(topic).negative, s, b)

\* line 381: max(0, score)
Clamp(score) == Max2(0, score)

\* the scores dictionary of lines 304-381 for normalized subject and body
Scores(s, b) == [ t \in Labels |-> Clamp(RawScore(t, s, b)) ]

SumOver(f) == SumSeq([ i \in 1..Len(LABEL_ORDER) |-> f[LABEL_ORDER[i]] ])

\* line 387
Uniform == [ keys |-> LABEL_ORDER, num |-> [ t \in Labels |-> 1 ],
             den |-> Len(LABEL_ORDER), error |-> "none" ]

\* line 389: scores[topic] / total_score, keys in label_order
Divide(scores, total) ==
  IF total = 0
  THEN [ keys |-> LABEL_ORDER, num |-> scores, den |-> 0,
         error |-> "ZeroDivisionError" ]
  ELSE [ keys |-> LABEL_ORDER, num |-> scores, den |-> total,
         error |-> "none" ]

\* normalisation without the zero check
ToProbabilitiesUnguarded(scores) == Divide(scores, SumOver(scores))

\* lines 384-389
ToProbabilities(scores) ==
  IF SumOver(scores) = 0 THEN Uniform ELSE Divide(scores, SumOver(scores))

calculate_heuristic_scores(subject, body) ==
  ToProbabilities(Scores(normalize_text(subject), normalize_text(body)))

---------------------------------------------------------------------------
(* Tickets.  A row is an ordered list of (field name, value) pairs; a      *)
(* field name is a token sequence.                                         *)

Field(name, value) == [ name |-> name, value |-> value ]

HasField(row, name) == \E i \in 1..Len(row) : row[i].name = name

\* row.get(name, default)
Get(row, name, default) ==
  IF HasField(row, name)
  THEN row[CHOOSE i \in 1..Len(row) : row[i].name = name].value
  ELSE default

\* row[name] = value on a Series: replace in place, or append
SetField(row, name, value) ==
  IF HasField(row, name)
  THEN [ i \in 1..Len(row) |->
           IF row[i].name = name THEN Field(name, value) ELSE row[i] ]
  ELSE Append(row, Field(name, value))

\* staging rows as the sources provide them (lines 98-112, 620-628): a
\* billing ticket, an account ticket with a null priority, a ticket whose
\* subject and body are missing
SampleRows ==
  << << Field(<<"ticket_id">>, Str(<<"T1">>)),
        Field(<<"subject">>, Str(<<"Invoice", SP, "payment", SP, "failed">>)),
        Field(<<"body">>, Str(<<"credit", SP, "card", SP, "declined", ".">>)),
        Field(<<"priority">>, Str(<<"High">>)) >>,
     << Field(<<"ticket_id">>, Str(<<"T2">>)),
        Field(<<"subject">>, Str(<<"Cannot", SP, "login">>)),
        Field(<<"body">>, Str(<<"Forgot", SP, "my", SP, "password", ".">>)),
        Field(<<"priority">>, PyNone) >>,
     << Field(<<"ticket_id">>, Str(<<"T3">>)),
        Field(<<"subject">>, PyNone),
        Field(<<"body">>, PyNaN),
        Field(<<"priority">>, Str(<<"Low">>)) >> >>

\* run_self_test's test_data, lines 565-571
ReferenceTickets ==
  << << Field(<<"ticket_id">>, Str(<<"T1">>)),
        Field(<<"subject">>, Str(<<"Invoice", SP, "payment", SP, "failed">>)),
        Field(<<"body">>,
              Str(<<"My", SP, "credit", SP, "card", SP, "was", SP, "declined",
                    SP, "when", SP, "trying", SP, "to", SP, "pay", SP, "the",
                    SP, "monthly", SP, "invoice", ".">>)),
        Field(<<"expected">>, Str(W3("Billing", "and", "Payment"))) >>,
     << Field(<<"ticket_id">>, Str(<<"T2">>)),
        Field(<<"subject">>, Str(<<"API", SP, "returning", SP, "500", SP, "error">>)),
        Field(<<"body">>,
              Str(<<"Getting", SP, "internal", SP, "server", SP, "error", SP,
                    "when", SP, "calling", SP, "the", SP, "/", "users", SP,
                    "endpoint", ".">>)),
        Field(<<"expected">>, Str(W2("Technical", "Issue"))) >>,
     << Field(<<"ticket_id">>, Str(<<"T3">>)),
        Field(<<"subject">>,
              Str(<<"How", SP, "to", SP, "export", SP, "CSV", SP, "report">>)),
        Field(<<"body">>,
              Str(<<"I", SP, "need", SP, "help", SP, "understanding", SP, "how",
                    SP, "to", SP, "export", SP, "my", SP, "data", SP, "as", SP,
                    "CSV", SP, "file", ".">>)),
        Field(<<"expected">>, Str(W2("Product", "Usage"))) >>,
     << Field(<<"ticket_id">>, Str(<<"T4">>)),
        Field(<<"subject">>, Str(<<"Cannot", SP, "login", SP, "to", SP, "account">>)),
        Field(<<"body">>,
              Str(<<"Forgot", SP, "my", SP, "password", SP, "and", SP, "the",
                    SP, "reset", SP, "email", SP, "is", SP, "not", SP,
                    "arriving", ".">>)),
        Field(<<"expected">>, Str(W3("Account", "and", "Access"))) >>,
     << Field(<<"ticket_id">>, Str(<<"T5">>)),
        Field(<<"subject">>,
              Str(<<"Love", SP, "the", SP, "product", SP, "but", SP, "pricing",
                    SP, "feels", SP, "high">>)),
        Field(<<"body">>,
              Str(<<"Great", SP, "features", SP, "but", SP, "would", SP,
                    "suggest", SP, "reviewing", SP, "the", SP, "pricing", SP,
                    "structure", ".">>)),
        Field(<<"expected">>, Str(W2("General", "Feedback"))) >> >>

\* every row a call can be given; a data frame is a list of row numbers
Pool == SampleRows \o ReferenceTickets

PoolIds == 1..Len(Pool)

SampleIds == 1..Len(SampleRows)

\* pd.DataFrame(test_data), line 573
ReferenceBatch == [ i \in 1..Len(ReferenceTickets) |-> Len(SampleRows) + i ]

\* lines 398-399 and 508-509
SubjectOf(row) == PyStr(Get(row, <<"subject">>, Str(<< >>)))

BodyOf(row) == PyStr(Get(row, <<"body">>, Str(<< >>)))

\* the heuristic distribution of each pool row as classify_tickets and
\* train_ml_classifier obtain it
HeuristicOf ==
  [ i \in PoolIds |->
      calculate_heuristic_scores(SubjectOf(Pool[i]), BodyOf(Pool[i])) ]

---------------------------------------------------------------------------
(* Arg-max and sorting. *)

MaxOfSeq(s) == CHOOSE m \in Range(s) : \A x \in Range(s) : x <= m

\* the last key of maximal value
LastMaxKey(keys, num) ==
  LET m == MaxOfSeq([ i \in 1..Len(keys) |-> num[keys[i]] ])
      i == CHOOSE j \in 1..Len(keys) :
             /\ num[keys[j]] = m
             /\ \A h \in (j + 1)..Len(keys) : num[keys[h]] # m
  IN  keys[i]

\* max(d.keys(), key=d.get): the first key, in the dictionary's order, of
\* maximal value
FirstMaxKey(keys, num) ==
  LET m == MaxOfSeq([ i \in 1..Len(keys) |-> num[keys[i]] ])
      i == CHOOSE j \in 1..Len(keys) :
             /\ num[keys[j]] = m
             /\ \A h \in 1..(j - 1) : num[keys[h]] # m
  IN  keys[i]

ArgMax(dist) == FirstMaxKey(dist.keys, dist.num)

\* the sequence without its first occurrence of x
RECURSIVE RemoveOne(_, _)
RemoveOne(s, x) ==
  IF s = << >> THEN << >>
  ELSE IF Head(s) = x THEN Tail(s) ELSE << Head(s) >> \o RemoveOne(Tail(s), x)

\* sorted(values, reverse=True)
RECURSIVE SortedDesc(_)
SortedDesc(s) ==
  IF s = << >> THEN << >>
  ELSE << MaxOfSeq(s) >> \o SortedDesc(RemoveOne(s, MaxOfSeq(s)))

---------------------------------------------------------------------------
(* The statistical model.  The library (TfidfVectorizer, LinearSVC,        *)
(* CalibratedClassifierCV, LabelEncoder) is outside the repository: a fit  *)
(* either succeeds or raises, and a fitted model answers a text with one   *)
(* raw output.  Probabilities are in twentieths; a decision score d is     *)
(* carried as e^d.                                                         *)

\* LabelEncoder sorts its classes
ENCODER_ORDER ==
  << "Account and Access", "Billing and Payment", "General Feedback",
     "Product Usage", "Technical Issue" >>

\* label_encoder.fit_transform(heuristic_labels), line 421: classes_
RECURSIVE ClassesFrom(_, _)
ClassesFrom(order, present) ==
  IF order = << >> THEN << >>
  ELSE IF Head(order) \in present
       THEN << Head(order) >> \o ClassesFrom(Tail(order), present)
       ELSE ClassesFrom(Tail(order), present)

FitLabelEncoder(old, heuristic_labels) ==
  ClassesFrom(ENCODER_ORDER, Range(heuristic_labels))

NoObject == [ kind |-> "None", fitted |-> FALSE, data |-> << >>,
              style |-> 0, n_classes |-> 0 ]

\* a row of k values: level at class c, the rest at the next class
Peak(k, c, level, rest) ==
  [ i \in 1..k |-> IF i = c THEN level
                   ELSE IF i = (c % k) + 1 THEN rest ELSE 0 ]

\* predict_proba rows a calibrated model may give, in twentieths:
\* 0.9, 0.55 and 0.5 on each class in turn
ProbaRows(k) ==
  IF k = 1 THEN << << 20 >> >>
  ELSE [ j \in 1..(3 * k) |->
           Peak(k, ((j - 1) % k) + 1,
                CASE (j - 1) \div k = 0 -> 18
                  [] (j - 1) \div k = 1 -> 11
                  [] OTHER -> 10,
                CASE (j - 1) \div k = 0 -> 2
                  [] (j - 1) \div k = 1 -> 9
                  [] OTHER -> 10) ]

\* decision_function rows an uncalibrated model may give, as e^d:
\* for two classes the scalar margin d as << e^d numerator, denominator >>
DecisionRows(k) ==
  IF k = 2 THEN << << 9, 1 >>, << 11, 9 >>, << 1, 1 >>, << 9, 11 >>, << 1, 9 >> >>
  ELSE [ j \in 1..(2 * k) |->
           [ i \in 1..k |->
               IF i # ((j - 1) % k) + 1 THEN 1
               ELSE IF (j - 1) \div k = 0 THEN 9 ELSE 2 ] ]

\* the raw answer of fitted classifier clf for the pool row cid
RawOutput(clf, cid) ==
  LET rows == IF clf.kind = "calibrated" THEN ProbaRows(clf.n_classes)
              ELSE DecisionRows(clf.n_classes)
  IN  rows[((clf.style + cid) % Len(rows)) + 1]

\* what LinearSVC itself predicts for two classes from the margin d, given
\* as e^d = raw[1] / raw[2]: classes_[1] if d > 0, else classes_[0]
DecisionPredicts(classes, raw) ==
  IF raw[1] > raw[2] THEN classes[2] ELSE classes[1]

\* hasattr(self.ml_classifier, 'predict_proba')
HasPredictProba(clf) == clf.kind = "calibrated"

\* lines 456-467 and 518-526: ml_probs_array as numerators over one
\* denominator
MlProbsArray(clf, raw) ==
  IF HasPredictProba(clf)
  THEN [ nums |-> raw, den |-> 20 ]
  ELSE IF clf.n_classes = 2
       \* np.isscalar: [1/(1+exp(-d)), 1/(1+exp(d))] with e^d = raw[1]/raw[2]
       THEN [ nums |-> << raw[1], raw[2] >>, den |-> raw[1] + raw[2] ]
       \* softmax
       ELSE [ nums |-> raw, den |-> SumSeq(raw) ]

\* lines 470-476: the dictionary of the trained classes, in encoder order,
\* then every label of label_order that is missing, with 0.0
RECURSIVE MissingLabels(_, _)
MissingLabels(order, have) ==
  IF order = << >> THEN << >>
  ELSE IF Head(order) \in have THEN MissingLabels(Tail(order), have)
       ELSE << Head(order) >> \o MissingLabels(Tail(order), have)

\* the trained classes alone
PaddedKeysBare(ml_labels) == ml_labels

PaddedKeys(ml_labels) == ml_labels \o MissingLabels(LABEL_ORDER, Range(ml_labels))

MlProbs(classes, arr) ==
  LET ml_labels == SubSeq(classes, 1, Len(arr.nums))
  IN  [ keys |-> PaddedKeys(ml_labels),
        num |-> [ t \in Labels |->
                    IF \E i \in 1..Len(ml_labels) : ml_labels[i] = t
                    THEN arr.nums[CHOOSE i \in 1..Len(ml_labels) : ml_labels[i] = t]
                    ELSE 0 ],
        den |-> arr.den,
        error |-> "none" ]

\* a gate that excludes its boundary values
GatePassesStrict(max_num, margin_num, den) ==
  /\ max_num * 100 > CONFIDENCE_THRESHOLD * den
  /\ margin_num * 100 > FALLBACK_MARGIN * den

\* line 484 on hundredths: max_prob >= CONFIDENCE_THRESHOLD and
\* margin >= FALLBACK_MARGIN
GatePasses(max_num, margin_num, den) ==
  /\ max_num * 100 >= CONFIDENCE_THRESHOLD * den
  /\ margin_num * 100 >= FALLBACK_MARGIN * den

\* lines 479-487
UseMl(ml_probs) ==
  LET sorted_probs == SortedDesc([ i \in 1..Len(ml_probs.keys) |->
                                     ml_probs.num[ml_probs.keys[i]] ])
      max_prob == sorted_probs[1]
      margin == IF Len(sorted_probs) > 1
                THEN sorted_probs[1] - sorted_probs[2]
                ELSE max_prob
  IN  GatePasses(max_prob, margin, ml_probs.den)

\* a counter gate that counts its boundary values as fallback
CountsAsFallbackStrict(arr) ==
  LET max_ml_prob == MaxOfSeq(arr.nums)
      sorted_probs == SortedDesc(arr.nums)
      margin == IF Len(sorted_probs) > 1
                THEN sorted_probs[1] - sorted_probs[2]
                ELSE max_ml_prob
  IN  \/ max_ml_prob * 100 <= CONFIDENCE_THRESHOLD * arr.den
      \/ margin * 100 <= FALLBACK_MARGIN * arr.den

\* lines 528-532: the fallback counter's own gate, on the raw array
CountsAsFallback(arr) ==
  LET max_ml_prob == MaxOfSeq(arr.nums)
      sorted_probs == SortedDesc(arr.nums)
      margin == IF Len(sorted_probs) > 1
                THEN sorted_probs[1] - sorted_probs[2]
                ELSE max_ml_prob
  IN  \/ max_ml_prob * 100 < CONFIDENCE_THRESHOLD * arr.den
      \/ margin * 100 < FALLBACK_MARGIN * arr.den

\* line 451: if self.ml_classifier and self.vectorizer
ModelPresent(clf, vec) == clf.kind # "None" /\ vec.kind # "None"

\* lines 492-495
Prediction(final_probs, source, ml_probs) ==
  [ status |-> "ok",
    predicted_topic |-> ArgMax(final_probs),
    confidence |-> final_probs.num[ArgMax(final_probs)],
    probs |-> final_probs,
    source |-> source,
    ml_probs |-> ml_probs ]

Raised(what) ==
  [ status |-> what, predicted_topic |-> "", confidence |-> 0,
    probs |-> Uniform, source |-> "", ml_probs |-> Uniform ]

\* predict_probabilities, lines 445-495, for pool row cid with the fields
\* of the classifier object as they stand
\* lines 450-495: the rest of predict_probabilities once heuristic_probs
\* is there
PredictFrom(heuristic_probs, clf, vec, classes, cid) ==
  IF heuristic_probs.error # "none" THEN Raised(heuristic_probs.error)
  ELSE IF ModelPresent(clf, vec)
  THEN IF ~vec.fitted \/ ~clf.fitted THEN Raised("NotFittedError")
       ELSE LET ml_probs == MlProbs(classes, MlProbsArray(clf, RawOutput(clf, cid)))
            IN  IF UseMl(ml_probs)
                THEN Prediction(ml_probs, "ml", ml_probs)
                ELSE Prediction(heuristic_probs, "heuristic", ml_probs)
  ELSE Prediction(heuristic_probs, "heuristic", heuristic_probs)

predict_probabilities(clf, vec, classes, cid) ==
  PredictFrom(HeuristicOf[cid], clf, vec, classes, cid)

---------------------------------------------------------------------------
(* The classifier object and one classify_tickets call at a time. *)

MaxBatch == 2

MaxRuns == 2

VARIABLES
  vectorizer,        \* self.vectorizer
  ml_classifier,     \* self.ml_classifier
  label_encoder,     \* self.label_encoder.classes_
  pc,                \* where classify_tickets stands
  df,                \* the input rows, as pool row numbers
  heuristic_labels,  \* train_ml_classifier's weak labels
  results,           \* classify_tickets' results list
  fallback_count,    \* classify_tickets' fallback counter
  warned,            \* logging.warning of line 441 was issued in this call
  outcome,           \* how the last classify_tickets call ended
  trainCalls,        \* entries into train_ml_classifier in this call
  fresh,             \* the object was newly constructed when the call began
  library,           \* what the library did for each training set so far
  history,           \* the calls that returned: input and output
  runs,              \* classify_tickets calls begun
  last,              \* the last direct predict_probabilities: row and result
  sc,                \* the scorer under test (specification SpecScore)
  tasks              \* predictions of one batch that run side by side

vars ==
  << vectorizer, ml_classifier, label_encoder, pc, df, heuristic_labels,
     results, fallback_count, warned, outcome, trainCalls, fresh, library,
     history, runs, last, sc, tasks >>

object == << vectorizer, ml_classifier, label_encoder >>

call == << pc, df, heuristic_labels, results, fallback_count, warned,
           outcome, trainCalls, fresh, history, runs >>

Batches == UNION { [ 1..n -> SampleIds ] : n \in 1..MaxBatch }

Scenarios == { "vec_fail", "calibrated", "calib_other", "plain", "plain_fail" }

\* what the library may do with a training set: LinearSVC needs two
\* classes, so with fewer every fit of the classifier raises
LibraryChoices(labels) ==
  { o \in [ scenario : Scenarios, style : 0..5 ] :
      /\ o.scenario \in { "vec_fail", "calib_other", "plain_fail" } => o.style = 0
      /\ Cardinality(Range(labels)) < 2 =>
           o.scenario \in { "vec_fail", "calib_other", "plain_fail" } }

NoResult == [ cid |-> 0, prediction |-> Raised("none") ]

ScInit == [ phase |-> "off" ]

\* TicketClassifier.__init__, lines 187-191
Init ==
  /\ vectorizer = NoObject
  /\ ml_classifier = NoObject
  /\ label_encoder = << >>
  /\ pc = "idle"
  /\ df = << >>
  /\ heuristic_labels = << >>
  /\ results = << >>
  /\ fallback_count = 0
  /\ warned = FALSE
  /\ outcome = "none"
  /\ trainCalls = 0
  /\ fresh = TRUE
  /\ library = << >>
  /\ history = << >>
  /\ runs = 0
  /\ last = NoResult
  /\ sc = ScInit
  /\ tasks = << >>

\* a new TicketClassifier() replaces the object
Construct ==
  /\ pc = "idle"
  /\ vectorizer' = NoObject
  /\ ml_classifier' = NoObject
  /\ label_encoder' = << >>
  /\ last' = NoResult
  /\ UNCHANGED << call, library, sc, tasks >>

\* the program ends and is started again (main, lines 636-639: one object
\* and one classify_tickets call per process)
Restart ==
  /\ pc = "idle"
  /\ outcome # "none"
  /\ vectorizer' = NoObject
  /\ ml_classifier' = NoObject
  /\ label_encoder' = << >>
  /\ pc' = "idle"
  /\ df' = << >>
  /\ heuristic_labels' = << >>
  /\ results' = << >>
  /\ fallback_count' = 0
  /\ warned' = FALSE
  /\ outcome' = "none"
  /\ trainCalls' = 0
  /\ fresh' = TRUE
  /\ library' = << >>
  /\ history' = << >>
  /\ runs' = 0
  /\ last' = NoResult
  /\ tasks' = << >>
  /\ UNCHANGED sc

\* training only when the object has no classifier yet
EntryPcCached(clf) == IF clf.kind = "None" THEN "train_labels" ELSE "predict"

\* line 501: classify_tickets begins by calling train_ml_classifier
EntryPc(clf) == "train_labels"

\* classify_tickets(df) is entered
Enter(batch) ==
  /\ pc = "idle"
  /\ df' = batch
  /\ pc' = EntryPc(ml_classifier)
  /\ trainCalls' = IF EntryPc(ml_classifier) = "train_labels" THEN 1 ELSE 0
  /\ fresh' = (object = << NoObject, NoObject, << >> >>)
  /\ heuristic_labels' = << >>
  /\ results' = << >>
  /\ fallback_count' = 0
  /\ warned' = FALSE
  /\ outcome' = "running"
  /\ runs' = runs + 1
  /\ last' = NoResult
  /\ UNCHANGED << object, library, history, sc, tasks >>

\* the object's one classify_tickets call
Call(batch) ==
  /\ outcome = "none"
  /\ Enter(batch)

\* the batches given to an object that is used again: two tickets of
\* different topics, a ticket without signal with another, a single ticket
RepeatBatches == { << 1, 2 >>, << 3, 2 >>, << 2 >> }

\* classify_tickets is called on an object that may have been used before
CallAgain(batch) ==
  /\ runs < MaxRuns
  /\ Enter(batch)

\* lines 394-406: the weak label of every row
WeakLabel(cid) == ArgMax(HeuristicOf[cid])

TrainLabels ==
  /\ pc = "train_labels"
  /\ heuristic_labels' = [ i \in 1..Len(df) |-> WeakLabel(df[i]) ]
  /\ pc' = "fit_vectorizer"
  /\ UNCHANGED << object, df, results, fallback_count, warned, outcome,
                  trainCalls, fresh, library, history, runs, last, sc, tasks >>

Known(key) == \E i \in 1..Len(library) : library[i].key = key

Answer(key) == library[CHOOSE i \in 1..Len(library) : library[i].key = key].answer

\* the exception leaves classify_tickets
RaiseOut ==
  /\ pc' = "idle"
  /\ outcome' = "raised"

\* lines 413-421: a new vectorizer is assigned, then fitted; the label
\* encoder is fitted after it.  The library answers a training set it has
\* seen before as it did then.
FitVectorizer ==
  /\ pc = "fit_vectorizer"
  /\ \E o \in LibraryChoices(heuristic_labels) :
       /\ Known(df) => o = Answer(df)
       /\ library' = IF Known(df) THEN library
                     ELSE Append(library, [ key |-> df, answer |-> o ])
       /\ vectorizer' = [ kind |-> "TfidfVectorizer",
                          fitted |-> o.scenario # "vec_fail",
                          data |-> df, style |-> 0, n_classes |-> 0 ]
       /\ IF o.scenario = "vec_fail"
          THEN /\ RaiseOut
               /\ UNCHANGED label_encoder
          ELSE /\ label_encoder' = FitLabelEncoder(label_encoder, heuristic_labels)
               /\ pc' = "fit_calibrated"
               /\ UNCHANGED outcome
  /\ UNCHANGED << ml_classifier, df, heuristic_labels, results, fallback_count,
                  warned, trainCalls, fresh, history, runs, last, sc, tasks >>

\* a classifier that starts from the one the object held before
NewClassifierWarm(kind, o) ==
  [ kind |-> kind, fitted |-> o.scenario = kind, data |-> df,
    style |-> o.style + ml_classifier.style, n_classes |-> Len(label_encoder) ]

NewClassifier(kind, o) ==
  [ kind |-> kind, fitted |-> o.scenario = kind, data |-> df,
    style |-> o.style, n_classes |-> Len(label_encoder) ]

\* a handler that catches every exception
CaughtAlways(scenario) == TRUE

\* which exceptions of the calibrated fit line 439 catches
CaughtByFallback(scenario) == scenario \in { "plain", "plain_fail" }

\* lines 424-441: the calibrated classifier is assigned, then fitted; a
\* ValueError is logged and leads on to the uncalibrated fit
FitCalibrated ==
  /\ pc = "fit_calibrated"
  /\ ml_classifier' = NewClassifier("calibrated", Answer(df))
  /\ IF Answer(df).scenario = "calibrated"
     THEN /\ pc' = "predict"
          /\ UNCHANGED << warned, outcome >>
     ELSE IF CaughtByFallback(Answer(df).scenario)
          THEN /\ warned' = TRUE
               /\ pc' = "fit_plain"
               /\ UNCHANGED outcome
          ELSE /\ RaiseOut
               /\ UNCHANGED warned
  /\ UNCHANGED << vectorizer, label_encoder, df, heuristic_labels, results,
                  fallback_count, trainCalls, fresh, library, history, runs,
                  last, sc, tasks >>

\* lines 442-443: the uncalibrated classifier is assigned, then fitted; an
\* exception here is not caught
FitPlain ==
  /\ pc = "fit_plain"
  /\ ml_classifier' = NewClassifier("plain", Answer(df))
  /\ IF Answer(df).scenario = "plain"
     THEN /\ pc' = "predict"
          /\ UNCHANGED outcome
     ELSE RaiseOut
  /\ UNCHANGED << vectorizer, label_encoder, df, heuristic_labels, results,
                  fallback_count, warned, trainCalls, fresh, library, history,
                  runs, last, sc, tasks >>

\* "prob_" + label.replace(' ', '_'), line 542
LabelTokens(label) ==
  CASE label = "Billing and Payment" -> W3("Billing", "and", "Payment")
    [] label = "Technical Issue" -> W2("Technical", "Issue")
    [] label = "Product Usage" -> W2("Product", "Usage")
    [] label = "Account and Access" -> W3("Account", "and", "Access")
    [] label = "General Feedback" -> W2("General", "Feedback")

\* the column name with the label as it is
ProbColumnPlain(label) == << "prob_" >> \o LabelTokens(label)

ProbColumn(label) ==
  << "prob_" >> \o [ i \in 1..Len(LabelTokens(label)) |->
                       IF LabelTokens(label)[i] = SP THEN "_"
                       ELSE LabelTokens(label)[i] ]

\* lines 541-543
RECURSIVE WithProbColumns(_, _, _)
WithProbColumns(row, labels, probs) ==
  IF labels = << >> THEN row
  ELSE WithProbColumns(
         SetField(row, ProbColumn(Head(labels)),
                  << probs.num[Head(labels)], probs.den >>),
         Tail(labels), probs)

\* lines 536-543
ResultRow(row, p) ==
  WithProbColumns(
    SetField(SetField(row, <<"predicted_topic">>, p.predicted_topic),
             <<"confidence">>, << p.confidence, p.probs.den >>),
    LABEL_ORDER, p.probs)

\* lines 514-533
FallbackIncrement(clf, vec, cid) ==
  IF ModelPresent(clf, vec)
     /\ CountsAsFallback(MlProbsArray(clf, RawOutput(clf, cid)))
  THEN 1 ELSE 0

\* lines 507-545: one turn of the loop
PredictRow ==
  /\ pc = "predict"
  /\ Len(results) < Len(df)
  /\ LET cid == df[Len(results) + 1]
         p == predict_probabilities(ml_classifier, vectorizer, label_encoder, cid)
     IN  IF p.status # "ok"
         THEN /\ RaiseOut
              /\ UNCHANGED << results, fallback_count >>
         ELSE /\ fallback_count' =
                   fallback_count + FallbackIncrement(ml_classifier, vectorizer, cid)
              /\ results' = Append(results,
                   [ row |-> ResultRow(Pool[cid], p),
                     prediction |-> p,
                     model |-> object,
                     trainCalls |-> trainCalls ])
              /\ UNCHANGED << pc, outcome >>
  /\ UNCHANGED << object, df, heuristic_labels, warned, trainCalls, fresh,
                  library, history, runs, last, sc, tasks >>

Output(res) ==
  [ i \in 1..Len(res) |->
      [ predicted_topic |-> res[i].prediction.predicted_topic,
        confidence |-> << res[i].prediction.confidence, res[i].prediction.probs.den >>,
        num |-> res[i].prediction.probs.num,
        den |-> res[i].prediction.probs.den ] ]

\* lines 548-558: the loop is over, the result frame is returned
Finish ==
  /\ pc = "predict"
  /\ Len(results) = Len(df)
  /\ pc' = "idle"
  /\ outcome' = "returned"
  /\ history' = Append(history, [ key |-> df, out |-> Output(results),
                                  fresh |-> fresh ])
  /\ UNCHANGED << object, df, heuristic_labels, results, fallback_count,
                  warned, trainCalls, fresh, library, runs, last, sc, tasks >>

\* predict_probabilities called directly on the object
CallPredict(cid) ==
  /\ pc = "idle"
  /\ last' = [ cid |-> cid,
               prediction |-> predict_probabilities(ml_classifier, vectorizer,
                                                    label_encoder, cid) ]
  /\ UNCHANGED << object, call, library, sc, tasks >>

\* one object, one batch, as the program runs it
Next ==
  \/ Restart
  \/ \E batch \in Batches : Call(batch)
  \/ TrainLabels
  \/ FitVectorizer
  \/ FitCalibrated
  \/ FitPlain
  \/ PredictRow
  \/ Finish
  \/ \E cid \in SampleIds : CallPredict(cid)

Spec == Init /\ [][Next]_vars

\* an object that is used for several batches, or replaced between them
NextTwice ==
  \/ Construct
  \/ \E batch \in RepeatBatches : CallAgain(batch)
  \/ TrainLabels
  \/ FitVectorizer
  \/ FitCalibrated
  \/ FitPlain
  \/ PredictRow
  \/ Finish

SpecTwice == Init /\ [][NextTwice]_vars

\* run_self_test, lines 573-575: a new object classifies the five reference
\* tickets
SelfTest ==
  /\ outcome = "none"
  /\ Enter(ReferenceBatch)

\* the expected topic of a reference row
Expected(cid) ==
  CHOOSE t \in Labels :
    Str(LabelTokens(t)) = Get(Pool[cid], <<"expected">>, PyNone)

\* lines 578-582: the rows whose predicted topic is the expected one
Correct(batch, res) ==
  Cardinality({ i \in 1..Len(res) :
                  res[i].prediction.predicted_topic = Expected(batch[i]) })

\* line 585
SelfTestSuccess(batch, res) == Correct(batch, res) >= 4

NextSelfTest ==
  \/ Restart
  \/ SelfTest
  \/ TrainLabels
  \/ FitVectorizer
  \/ FitCalibrated
  \/ FitPlain
  \/ PredictRow
  \/ Finish

SpecSelfTest == Init /\ [][NextSelfTest]_vars

---------------------------------------------------------------------------
(* The predictions of one batch side by side: after the training of line   *)
(* 501 every row's predict_probabilities runs as a task of two steps, the  *)
(* heuristic scoring of line 448 and the rest, in any interleaving.        *)

\* a batch with the same ticket twice, and a batch with a ticket without
\* signal
ParallelBatches == { << 1, 2, 1 >>, << 3, 2 >> }

\* a classifier that adapts itself with every prediction it makes
AfterPredictAdapted(clf) == [ clf EXCEPT !.style = (@ + 1) % 6 ]

\* the classifier object after predict_probabilities, lines 445-495: the
\* method assigns to none of self's fields
AfterPredict(clf) == clf

\* the rows are handed out once the model is trained
Dispatch ==
  /\ pc = "predict"
  /\ tasks = << >>
  /\ results = << >>
  /\ tasks' = [ i \in 1..Len(df) |->
                  [ pc |-> "new", heuristic_probs |-> Uniform,
                    prediction |-> Raised("none"), trained |-> object ] ]
  /\ pc' = "parallel"
  /\ UNCHANGED << object, df, heuristic_labels, results, fallback_count,
                  warned, outcome, trainCalls, fresh, library, history, runs,
                  last, sc >>

\* line 448 for row i
TaskScore(i) ==
  /\ pc = "parallel"
  /\ tasks[i].pc = "new"
  /\ tasks' = [ tasks EXCEPT ![i].pc = "scored",
                             ![i].heuristic_probs = HeuristicOf[df[i]] ]
  /\ UNCHANGED << object, call, library, last, sc >>

\* lines 450-495 for row i, with the object as it stands at this moment
TaskPredict(i) ==
  /\ pc = "parallel"
  /\ tasks[i].pc = "scored"
  /\ tasks' = [ tasks EXCEPT ![i].pc = "done",
                             ![i].prediction =
                               PredictFrom(tasks[i].heuristic_probs, ml_classifier,
                                           vectorizer, label_encoder, df[i]) ]
  /\ ml_classifier' = AfterPredict(ml_classifier)
  /\ UNCHANGED << vectorizer, label_encoder, call, library, last, sc >>

\* every task is done: the results are put together in the order of the rows
Gather ==
  /\ pc = "parallel"
  /\ \A i \in 1..Len(tasks) : tasks[i].pc = "done"
  /\ IF \E i \in 1..Len(tasks) : tasks[i].prediction.status # "ok"
     THEN /\ RaiseOut
          /\ UNCHANGED << results, fallback_count >>
     ELSE /\ results' = [ i \in 1..Len(df) |->
                            [ row |-> ResultRow(Pool[df[i]], tasks[i].prediction),
                              prediction |-> tasks[i].prediction,
                              model |-> object,
                              trainCalls |-> trainCalls ] ]
          /\ fallback_count' =
               SumSeq([ i \in 1..Len(df) |->
                          FallbackIncrement(ml_classifier, vectorizer, df[i]) ])
          /\ pc' = "predict"
          /\ UNCHANGED outcome
  /\ UNCHANGED << object, df, heuristic_labels, warned, trainCalls, fresh,
                  library, history, runs, last, sc, tasks >>

NextParallel ==
  \/ Restart
  \/ \E batch \in ParallelBatches : Call(batch)
  \/ TrainLabels
  \/ FitVectorizer
  \/ FitCalibrated
  \/ FitPlain
  \/ Dispatch
  \/ \E i \in 1..Len(tasks) : TaskScore(i)
  \/ \E i \in 1..Len(tasks) : TaskPredict(i)
  \/ Gather
  \/ Finish

SpecParallel == Init /\ [][NextParallel]_vars

---------------------------------------------------------------------------
(* The scorer on generated tickets: calculate_heuristic_scores is a pure   *)
(* function, applied here to inputs drawn from bounded sets.               *)

MaxWords == 2

MaxFill == 2

MaxCue == 4

\* words the generated bodies are made of
BodyWords == { "help", "Bug", "not", "billing", "500", "issue" }

RECURSIVE WordTexts(_)
WordTexts(n) ==
  IF n = 0 THEN { << >> }
  ELSE WordTexts(n - 1)
       \cup { << w >> : w \in BodyWords }
       \cup { t \o << SP, w >> : t \in WordTexts(n - 1) \ { << >> }, w \in BodyWords }

\* missing, null and empty values, and strings of whitespace
MissingValues ==
  { PyNone, PyNaN, Str(<< >>), Str(<< SP >>), Str(<< "\t", SP, "\n" >>) }

SubjectValues ==
  MissingValues
  \cup { Str(<< "None" >>), Str(<< "Bug" >>), Str(<< SP, "API", SP, SP, "error", SP, "help" >>) }

BodyValues ==
  MissingValues \cup { Str(<< "nan" >>) } \cup { Str(t) : t \in WordTexts(MaxWords) }

\* subject, body, scores and distribution of one scoring
Scored(subject, body) ==
  LET s == normalize_text(subject)
      b == normalize_text(body)
      scores == Scores(s, b)
  IN  [ subject |-> s, body |-> b, scores |-> scores,
        dist |-> ToProbabilities(scores) ]

PickTicket ==
  /\ sc.phase = "off"
  /\ \E subject \in SubjectValues, body \in BodyValues, via_str \in BOOLEAN :
       sc' = [ phase |-> "picked", kind |-> "ticket", subject |-> subject,
               body |-> body, via_str |-> via_str ]
  /\ UNCHANGED << object, call, library, last, tasks >>

\* calculate_heuristic_scores(subject, body), called directly or, as lines
\* 398-404 and 508-511 do, on str(subject) and str(body)
ScoreTicket ==
  /\ sc.phase = "picked"
  /\ sc.kind = "ticket"
  /\ sc' = [ sc EXCEPT !.phase = "scored" ]
             @@ [ out |-> IF sc.via_str
                          THEN Scored(PyStr(sc.subject), PyStr(sc.body))
                          ELSE Scored(sc.subject, sc.body) ]
  /\ UNCHANGED << object, call, library, last, tasks >>

\* the literal positive rules of a topic
LiteralRules(topic) == SelectSeq(Keywords(topic).positive, LAMBDA r : ~r.is_regex)

RECURSIVE Fillers(_)
Fillers(n) == IF n = 0 THEN << >> ELSE << "a", SP >> \o Fillers(n - 1)

\* "<cue> a a <keyword>", the same without the keyword, and the same
\* without the cue
NegatedText(c) ==
  negation_words[c.cue] \o << SP >> \o Fillers(c.fill)
  \o LiteralRules(c.topic)[c.rule].alts[1]

WithoutKeyword(c) ==
  RStrip(negation_words[c.cue] \o << SP >> \o Fillers(c.fill))

WithoutCue(c) ==
  Fillers(c.fill) \o LiteralRules(c.topic)[c.rule].alts[1]

\* the text on the case's side, the other side empty
OnSide(c, text) ==
  IF c.side = "subject" THEN Scored(Str(text), Str(<< >>))
  ELSE Scored(Str(<< >>), Str(text))

\* the positive rules of every topic that match text: topic, rule, whether
\* it is a regular expression, whether the negation adjustment applies
MatchedRules(text) ==
  { [ topic |-> p[1], rule |-> p[2],
      is_regex |-> Keywords(p[1]).positive[p[2]].is_regex,
      negated |-> /\ ~Keywords(p[1]).positive[p[2]].is_regex
                  /\ detect_negation(text, Keywords(p[1]).positive[p[2]].alts[1]) ] :
    p \in { q \in Labels \X (1..24) :
              /\ q[2] <= Len(Keywords(q[1]).positive)
              /\ CountMatches(Keywords(q[1]).positive[q[2]].alts, text) > 0 } }

Sides == { "subject", "body" }

PickNegation ==
  /\ sc.phase = "off"
  /\ \E topic \in Labels, rule \in 1..24, cue \in 1..MaxCue,
        fill \in 0..MaxFill, side \in Sides :
       /\ rule <= Len(LiteralRules(topic))
       /\ sc' = [ phase |-> "picked", kind |-> "negation", topic |-> topic,
                  rule |-> rule, cue |-> cue, fill |-> fill, side |-> side ]
  /\ UNCHANGED << object, call, library, last, tasks >>

ScoreNegation ==
  /\ sc.phase = "picked"
  /\ sc.kind = "negation"
  /\ sc' = [ sc EXCEPT !.phase = "scored" ]
             @@ [ negated |-> OnSide(sc, NegatedText(sc)),
                  without |-> OnSide(sc, WithoutKeyword(sc)),
                  plain |-> OnSide(sc, WithoutCue(sc)),
                  matched |-> MatchedRules(normalize_text(Str(NegatedText(sc)))) ]
  /\ UNCHANGED << object, call, library, last, tasks >>

\* the next scoring starts from nothing: the function keeps no state
NextCase ==
  /\ sc.phase = "scored"
  /\ sc' = ScInit
  /\ UNCHANGED << object, call, library, last, tasks >>

NextScore ==
  \/ NextCase
  \/ PickTicket
  \/ ScoreTicket
  \/ PickNegation
  \/ ScoreNegation

SpecScore == Init /\ [][NextScore]_vars

---------------------------------------------------------------------------
(* One rule on texts built around its keyword: the counts of lines 311-333 *)
(* and 376-379.                                                            *)

MaxGap == 3

\* how the text of the side under test is built from a negation cue, gap
\* words and the rule's keyword
Shapes == { "near", "twice", "comma", "none", "after", "extended" }

Polarities == { "positive", "negative" }

AdjustRule(c) == Keywords(c.topic)[c.polarity][c.rule]

\* the keyword with its last word continued into a longer word
WithLastExtended(kw) == [ kw EXCEPT ![Len(kw)] = Extension(kw[Len(kw)]) ]

\* "<cue> a a <keyword>"
CueGapKeyword(c, kw) ==
  negation_words[c.cue] \o << SP >> \o Fillers(c.gap) \o kw

AdjustText(c) ==
  LET kw == AdjustRule(c).alts[1]
  IN  CASE c.shape = "near" -> CueGapKeyword(c, kw)
        \* "<keyword> and <cue> a a <keyword>"
        [] c.shape = "twice" -> kw \o << SP, "and", SP >> \o CueGapKeyword(c, kw)
        \* "<cue> a a, <keyword>"
        [] c.shape = "comma" ->
             RStrip(negation_words[c.cue] \o << SP >> \o Fillers(c.gap))
             \o << ",", SP >> \o kw
        \* "a a <keyword>"
        [] c.shape = "none" -> Fillers(c.gap) \o kw
        \* "<keyword> <cue>"
        [] c.shape = "after" -> kw \o << SP >> \o negation_words[c.cue]
        \* "<keyword>. <cue> a a <keyword>s"
        [] c.shape = "extended" ->
             kw \o << ".", SP >> \o CueGapKeyword(c, WithLastExtended(kw))

Others == { "empty", "plain", "negated" }

\* the text of the other side: nothing, the keyword, "not <keyword>"
OtherText(c) ==
  LET kw == AdjustRule(c).alts[1]
  IN  CASE c.other = "empty" -> << >>
        [] c.other = "plain" -> kw
        [] c.other = "negated" -> << "not", SP >> \o kw

PickAdjust ==
  /\ sc.phase = "off"
  /\ \E polarity \in Polarities, topic \in Labels, rule \in 1..24,
        cue \in 1..Len(negation_words), gap \in 0..MaxGap, side \in Sides,
        shape \in Shapes, other \in Others :
       /\ rule <= Len(Keywords(topic)[polarity])
       /\ shape \in { "none" } => cue = 1
       /\ shape \in { "after" } => gap = 0
       /\ shape = "extended" =>
            LET kw == Keywords(topic)[polarity][rule].alts[1]
            IN  /\ polarity = "positive"
                /\ ~Keywords(topic)[polarity][rule].is_regex
                /\ Extension(kw[Len(kw)]) # kw[Len(kw)]
       /\ sc' = [ phase |-> "picked", kind |-> "adjust", polarity |-> polarity,
                  topic |-> topic, rule |-> rule, cue |-> cue, gap |-> gap,
                  side |-> side, shape |-> shape, other |-> other ]
  /\ UNCHANGED << object, call, library, last, tasks >>

\* the rule's counts and its amount as calculate_heuristic_scores computes
\* them: lines 311-341 for a positive rule, lines 376-379 for a negative one
ScoreAdjust ==
  /\ sc.phase = "picked"
  /\ sc.kind = "adjust"
  /\ LET rule == AdjustRule(sc)
         s == normalize_text(Str(IF sc.side = "subject" THEN AdjustText(sc)
                                 ELSE OtherText(sc)))
         b == normalize_text(Str(IF sc.side = "body" THEN AdjustText(sc)
                                 ELSE OtherText(sc)))
     IN  sc' = [ sc EXCEPT !.phase = "scored" ]
                 @@ [ subject |-> s, body |-> b,
                      n_s |-> CountMatches(rule.alts, s),
                      n_b |-> CountMatches(rule.alts, b),
                      eff_s |-> IF sc.polarity = "positive"
                                THEN EffectiveCount2(rule, s)
                                ELSE 2 * CountMatches(rule.alts, s),
                      eff_b |-> IF sc.polarity = "positive"
                                THEN EffectiveCount2(rule, b)
                                ELSE 2 * CountMatches(rule.alts, b),
                      amount |-> IF sc.polarity = "positive"
                                 THEN WeightedScore(sc.topic, rule, s, b)
                                 ELSE NegativePenalty(rule, s, b) ]
  /\ UNCHANGED << object, call, library, last, tasks >>

NextAdjust ==
  \/ NextCase
  \/ PickAdjust
  \/ ScoreAdjust

SpecAdjust == Init /\ [][NextAdjust]_vars

---------------------------------------------------------------------------
(* Tickets built around the Product Usage override of lines 343-366: a     *)
(* generic help, a how-to cue some words away from it, a Technical Issue   *)
(* pattern, and further Product Usage rules.                               *)

MaxDist == 5

HelpForms == { "none", "help", "needed" }

HelpText(c) ==
  CASE c.help = "none" -> << >>
    [] c.help = "help" -> << "help" >>
    [] c.help = "needed" -> W2("help", "needed")

\* 0 stands for no cue
CueText(c) == IF c.cue = 0 THEN << >> ELSE how_to_cues[c.cue]

\* the parts with single spaces between those that are not empty
RECURSIVE JoinWords(_)
JoinWords(parts) ==
  IF parts = << >> THEN << >>
  ELSE IF Head(parts) = << >> THEN JoinWords(Tail(parts))
  ELSE IF JoinWords(Tail(parts)) = << >> THEN Head(parts)
  ELSE Head(parts) \o << SP >> \o JoinWords(Tail(parts))

\* "help a a <cue>" or "<cue> a a help"
HelpAndCue(c) ==
  IF c.order = "help_first"
  THEN JoinWords(<< HelpText(c), RStrip(Fillers(c.dist)), CueText(c) >>)
  ELSE JoinWords(<< CueText(c), RStrip(Fillers(c.dist)), HelpText(c) >>)

\* where the pattern "timed out" stands: nowhere, in the subject, or with
\* its first word ending the subject and its second beginning the body
TechPlaces == { "none", "subject", "split" }

\* a further Product Usage rule after the sentence: none, the negated
\* keyword "not export", the negative rule "figured it out"
Extras == { "none", "not_export", "figured" }

OverrideSubject(c) ==
  CASE c.tech = "none" -> << >>
    [] c.tech = "subject" -> W2("timed", "out")
    [] c.tech = "split" -> << "timed" >>

OverrideBody(c) ==
  ( IF c.tech = "split" THEN << "out", ".", SP >> ELSE << >> )
  \o HelpAndCue(c)
  \o ( CASE c.extra = "none" -> << >>
         [] c.extra = "not_export" -> << ".", SP, "not", SP, "export" >>
         [] c.extra = "figured" -> << ".", SP >> \o W3("figured", "it", "out") )

PickOverride ==
  /\ sc.phase = "off"
  /\ \E help \in HelpForms, cue \in 0..Len(how_to_cues), dist \in 0..MaxDist,
        order \in { "help_first", "cue_first" }, tech \in TechPlaces,
        extra \in Extras :
       /\ cue = 0 \/ help = "none" => dist = 0 /\ order = "help_first"
       /\ sc' = [ phase |-> "picked", kind |-> "override", help |-> help,
                  cue |-> cue, dist |-> dist, order |-> order, tech |-> tech,
                  extra |-> extra ]
  /\ UNCHANGED << object, call, library, last, tasks >>

\* calculate_heuristic_scores on the case's ticket: per topic the running
\* score after the positive rules (line 341), the sum of the negative rules
\* (line 379), and the scores dictionary (line 381)
ScoreOverride ==
  /\ sc.phase = "picked"
  /\ sc.kind = "override"
  /\ LET s == normalize_text(Str(OverrideSubject(sc)))
         b == normalize_text(Str(OverrideBody(sc)))
     IN  sc' = [ sc EXCEPT !.phase = "scored" ]
                 @@ [ subject |-> s, body |-> b,
                      positive |-> [ t \in Labels |->
                                      PositiveSum(t, Keywords(t).positive, s, b) ],
                      negative |-> [ t \in Labels |->
                                      NegativeSum(Keywords(t).negative, s, b) ],
                      halved |-> UsageOverride(s, b),
                      scores |-> Scores(s, b) ]
  /\ UNCHANGED << object, call, library, last, tasks >>

NextOverride ==
  \/ NextCase
  \/ PickOverride
  \/ ScoreOverride

SpecOverride == Init /\ [][NextOverride]_vars

---------------------------------------------------------------------------
(* Properties. *)

\* every prediction made so far: by the loop of classify_tickets, and by the
\* last direct call of predict_probabilities
Observed ==
  { [ cid |-> df[i], p |-> results[i].prediction, model |-> results[i].model ] :
      i \in 1..Len(results) }
  \cup { [ cid |-> last.cid, p |-> last.prediction, model |-> object ] :
           x \in { y \in { 1 } : last.prediction.status = "ok" } }

ValuesOf(d) == { d.num[t] : t \in Labels }

MaxProbOf(d) == CHOOSE m \in ValuesOf(d) : \A v \in ValuesOf(d) : v <= m

\* the largest value among the topics other than one topic of maximal value
SecondProbOf(d) ==
  LET top == CHOOSE t \in Labels : d.num[t] = MaxProbOf(d)
      rest == { d.num[t] : t \in Labels \ { top } }
  IN  CHOOSE m \in rest : \A v \in rest : v <= m

\* max_prob >= 0.55 and margin >= 0.05 over the five topics
Confident(d) ==
  /\ 100 * MaxProbOf(d) >= 55 * d.den
  /\ 100 * (MaxProbOf(d) - SecondProbOf(d)) >= 5 * d.den

HasModel(o) == o.model[1].kind # "None" /\ o.model[2].kind # "None"

\* C1: predict_probabilities returns the statistical model's distribution
\* if and only if a model is there, its highest probability is at least
\* 0.55 and the margin to the second highest, over the five topics, is at
\* least 0.05; in every other case it returns the heuristic distribution.
C1_GateSelectsDistribution ==
  \A o \in Observed :
    IF HasModel(o) /\ Confident(o.p.ml_probs)
    THEN o.p.probs = o.p.ml_probs /\ o.p.source = "ml"
    ELSE o.p.probs = HeuristicOf[o.cid] /\ o.p.source = "heuristic"

\* a model whose highest probability is exactly 0.55 was preferred to a
\* different heuristic distribution
C1_Witness ==
  \E o \in Observed :
    /\ HasModel(o)
    /\ 100 * MaxProbOf(o.p.ml_probs) = 55 * o.p.ml_probs.den
    /\ o.p.probs = o.p.ml_probs
    /\ o.p.probs.num # HeuristicOf[o.cid].num

IsDistribution(d) ==
  /\ d.error = "none"
  /\ Len(d.keys) = 5
  /\ Range(d.keys) = Labels
  /\ d.den > 0
  /\ \A t \in Labels : 0 <= d.num[t] /\ d.num[t] <= d.den
  /\ SumSeq([ i \in 1..5 |-> d.num[LABEL_ORDER[i]] ]) = d.den

\* C2: every distribution predict_probabilities or calculate_heuristic_scores
\* returns has exactly the five topics of LABEL_ORDER as keys, values in
\* [0,1] that sum to 1, and probability 0 for every topic that is not a
\* class of the model it was taken from.
C2_FiveTopicDistribution ==
  /\ \A o \in Observed :
       /\ IsDistribution(o.p.probs)
       /\ IsDistribution(HeuristicOf[o.cid])
       /\ o.p.source = "ml" =>
            \A t \in Labels \ Range(o.model[3]) : o.p.probs.num[t] = 0
  /\ sc.phase = "scored" /\ sc.kind = "ticket" => IsDistribution(sc.out.dist)
  /\ sc.phase = "scored" /\ sc.kind = "negation" =>
       /\ IsDistribution(sc.negated.dist)
       /\ IsDistribution(sc.without.dist)
       /\ IsDistribution(sc.plain.dist)

\* the distribution of a model that saw two of the five topics was returned
C2_Witness ==
  \E o \in Observed :
    /\ o.p.source = "ml"
    /\ Len(o.model[3]) = 2
    /\ \E t \in Labels \ Range(o.model[3]) : o.p.probs.num[t] = 0
    /\ \E t \in Range(o.model[3]) : 0 < o.p.probs.num[t] /\ o.p.probs.num[t] < o.p.probs.den

\* the topic of maximal value that stands first in LABEL_ORDER
EarliestMax(d) ==
  LABEL_ORDER[CHOOSE i \in 1..5 :
                /\ d.num[LABEL_ORDER[i]] = MaxProbOf(d)
                /\ \A j \in 1..(i - 1) : d.num[LABEL_ORDER[j]] < MaxProbOf(d)]

TrainedOn(model, rows) ==
  /\ model[1].kind = "TfidfVectorizer"
  /\ model[1].fitted
  /\ model[1].data = rows
  /\ model[2].kind \in { "calibrated", "plain" }
  /\ model[2].fitted
  /\ model[2].data = rows

\* C5: within one batch train_ml_classifier runs exactly once and is over
\* before the first prediction; every prediction of the batch runs against
\* the model fitted on this batch, and the model is the same for all of them.
C5_TrainOnceBeforePredict ==
  /\ pc = "predict" => trainCalls = 1 /\ TrainedOn(object, df)
  /\ \A i \in 1..Len(results) :
       /\ results[i].trainCalls = 1
       /\ TrainedOn(results[i].model, df)
       /\ results[i].model = results[1].model
       /\ outcome = "running" => results[i].model = object

\* the second batch of an object that was used before has been predicted
C5_Witness ==
  /\ runs = 2
  /\ ~fresh
  /\ outcome = "running"
  /\ Len(results) = 2
  /\ Len(history) = 1

\* the names of the fields classify_tickets adds, in their order
AddedNames ==
  << << "predicted_topic" >>, << "confidence" >>,
     << "prob_", "Billing", "_", "and", "_", "Payment" >>,
     << "prob_", "Technical", "_", "Issue" >>,
     << "prob_", "Product", "_", "Usage" >>,
     << "prob_", "Account", "_", "and", "_", "Access" >>,
     << "prob_", "General", "_", "Feedback" >> >>

C7_FallbackCounterAgrees ==
  fallback_count =
    Cardinality({ i \in 1..Len(results) :
                    /\ results[i].prediction.probs = HeuristicOf[df[i]]
                    /\ results[i].prediction.source = "heuristic" })

\* a batch predicted with the uncalibrated classifier has returned, one of
\* its two tickets with the heuristic distribution
C7_Witness ==
  /\ outcome = "returned"
  /\ ml_classifier.kind = "plain"
  /\ Len(results) = 2
  /\ fallback_count = 1
  /\ \E i \in 1..2 : results[i].prediction.source = "ml"

\* the model a new object has after training on batch, the library
\* answering as it does for this batch
FreshModel(batch) ==
  LET classes == ClassesFrom(ENCODER_ORDER, { WeakLabel(batch[i]) : i \in 1..Len(batch) })
  IN  << [ kind |-> "TfidfVectorizer", fitted |-> TRUE, data |-> batch,
           style |-> 0, n_classes |-> 0 ],
         [ kind |-> IF Answer(batch).scenario = "calibrated" THEN "calibrated" ELSE "plain",
           fitted |-> TRUE, data |-> batch, style |-> Answer(batch).style,
           n_classes |-> Len(classes) ],
         classes >>

\* what classify_tickets returns for batch on a new object
FreshOut(batch) ==
  Output([ i \in 1..Len(batch) |->
             [ prediction |-> predict_probabilities(FreshModel(batch)[2],
                                FreshModel(batch)[1], FreshModel(batch)[3], batch[i]) ] ])

\* C8: two classify_tickets calls on the same input, on a new object or on
\* the same object again, give the same predicted_topic, confidence and
\* probabilities for every ticket: those a new object gives, whatever the
\* object has classified before.  (The calls that have returned change
\* only when a call returns.)
C8_SameInputSameOutput ==
  outcome = "returned" =>
    /\ \A i \in 1..Len(history) : \A j \in 1..Len(history) :
         history[i].key = history[j].key => history[i].out = history[j].out
    /\ \A i \in 1..Len(history) : history[i].out = FreshOut(history[i].key)

\* a batch has returned, with a distribution of the statistical model, from
\* an object that had classified another batch before
C8_Witness ==
  /\ Len(history) = 2
  /\ history[1].key # history[2].key
  /\ history[1].fresh
  /\ ~history[2].fresh
  /\ outcome = "returned"
  /\ \E i \in 1..Len(results) : results[i].prediction.source = "ml"

\* the calibrated fit of this call failed with a ValueError
CalibrationValueError ==
  Known(df) /\ Answer(df).scenario \in { "plain", "plain_fail" }

\* the calibrated fit of this call failed with another exception
CalibrationOtherError == Known(df) /\ Answer(df).scenario = "calib_other"

\* the training of this call is past the calibrated fit
PastCalibratedFit ==
  /\ ml_classifier.data = df
  /\ vectorizer.data = df
  /\ vectorizer.fitted
  /\ pc \in { "fit_plain", "predict", "idle" }
  /\ outcome \in { "running", "raised", "returned" }

Missing(v) ==
  \/ v.kind \in { "none", "nan" }
  \/ v.kind = "str" /\ \A i \in 1..Len(v.toks) : IsSpace(v.toks[i])

\* 0.2 for each of the five topics, as a normal result
IsUniform(d) ==
  /\ d.error = "none"
  /\ d.den > 0
  /\ \A t \in Labels : 5 * d.num[t] = d.den

AllZero(scores) == \A t \in Labels : scores[t] = 0

\* the scorings the scorer has just made
Scorings ==
  IF sc.phase # "scored" THEN { }
  ELSE IF sc.kind = "ticket" THEN { sc.out }
  ELSE { sc.negated, sc.without, sc.plain }

OnlyNegatedLiterals ==
  /\ sc.phase = "scored"
  /\ sc.kind = "negation"
  /\ \E m \in sc.matched :
       /\ m.topic = sc.topic
       /\ ~m.is_regex
       /\ Keywords(m.topic).positive[m.rule] = LiteralRules(sc.topic)[sc.rule]
  /\ \A m \in sc.matched : ~m.is_regex => m.topic = sc.topic /\ m.negated

NoPatternMatches == \A m \in sc.matched : ~m.is_regex

\* the topic's score for the negated text is not above that for the text
\* without the keyword, is below (or, at zero, not above) that for the text
\* without the negation cue, and is not above any other topic's
NegationNotInFavour ==
  /\ sc.negated.scores[sc.topic] <= sc.without.scores[sc.topic]
  /\ \/ sc.negated.scores[sc.topic] < sc.plain.scores[sc.topic]
     \/ /\ sc.negated.scores[sc.topic] = 0
        /\ sc.negated.scores[sc.topic] <= sc.plain.scores[sc.topic]
  /\ \A u \in Labels :
       /\ sc.negated.scores[sc.topic] <= sc.negated.scores[u]
       /\ sc.negated.dist.num[sc.topic] <= sc.negated.dist.num[u]

---------------------------------------------------------------------------
\* the reference rows on which the fitted model was followed although it
\* ranks another topic highest than the label it was trained with
Contradicted(labels, res) ==
  { i \in 1..Len(res) :
      /\ res[i].prediction.source = "ml"
      /\ ArgMax(res[i].prediction.ml_probs) # labels[i] }

---------------------------------------------------------------------------
\* what a case of SpecAdjust was built to contain
Adjusted == sc.phase = "scored" /\ sc.kind = "adjust"

\* boundary matches of the keyword on the side under test and on the other
BuiltCount(c) == IF c.shape = "twice" THEN 2 ELSE 1

OtherCount(c) == IF c.other = "empty" THEN 0 ELSE 1

\* a cue, followed by whitespace and at most two words each followed by
\* whitespace, stands before the keyword's text
CueInWindow(c) == c.shape \in { "near", "twice", "extended" } /\ c.gap <= 2

\* the side under test and the other side of a scored case
MainEff(c) == IF c.side = "subject" THEN c.eff_s ELSE c.eff_b

OtherEff(c) == IF c.side = "subject" THEN c.eff_b ELSE c.eff_s

MainN(c) == IF c.side = "subject" THEN c.n_s ELSE c.n_b

OtherN(c) == IF c.side = "subject" THEN c.n_b ELSE c.n_s

---------------------------------------------------------------------------
\* the whitespace-separated chunks a case's texts were built with
KeywordWords(c) ==
  1 + Cardinality({ i \in 1..Len(AdjustRule(c).alts[1]) :
                      AdjustRule(c).alts[1][i] = SP })

BuiltWords(c) ==
  CASE c.shape = "near" -> 1 + c.gap + KeywordWords(c)
    [] c.shape = "twice" -> KeywordWords(c) + 2 + c.gap + KeywordWords(c)
    [] c.shape = "comma" -> 1 + c.gap + KeywordWords(c)
    [] c.shape = "none" -> c.gap + KeywordWords(c)
    [] c.shape = "after" -> KeywordWords(c) + 1
    [] c.shape = "extended" -> KeywordWords(c) + 1 + c.gap + KeywordWords(c)

OtherWords(c) ==
  CASE c.other = "empty" -> 0
    [] c.other = "plain" -> KeywordWords(c)
    [] c.other = "negated" -> 1 + KeywordWords(c)

SubjectWords(c) == IF c.side = "subject" THEN BuiltWords(c) ELSE OtherWords(c)

\* C13: the subject weight is 0.3 when the normalized subject has at most
\* two whitespace-separated tokens (the empty subject included) and 0.4
\* otherwise, the body weight is 1 minus the subject weight, and a positive
\* rule contributes (subject_count * subject_weight * subject_multiplier
\* + body_count * body_weight) * rule_weight, the multiplier being 1.4 for
\* Technical Issue and 1.0 for every other topic.  Weights in tenths,
\* counts in halves, the contribution in units of 1/400.
C13_WeightedContribution ==
  Adjusted /\ sc.polarity = "positive" =>
    LET subject_weight == IF SubjectWords(sc) <= 2 THEN 3 ELSE 4
        body_weight == 10 - subject_weight
        subject_multiplier == IF sc.topic = "Technical Issue" THEN 14 ELSE 10
    IN  /\ SubjectWeight10(sc.subject) = subject_weight
        /\ BodyWeight10(sc.subject) = body_weight
        /\ SubjectWeight10(sc.subject) + BodyWeight10(sc.subject) = 10
        /\ sc.amount
             = 2 * AdjustRule(sc).weight
               * ( sc.eff_s * subject_weight * subject_multiplier
                   + sc.eff_b * body_weight * 10 )

\* a Technical Issue pattern matched once in a subject of three words and
\* once in the body: (1 * 0.4 * 1.4 + 1 * 0.6) * 3.0 = 3.48
C13_Witness ==
  /\ Adjusted
  /\ sc.polarity = "positive"
  /\ sc.topic = "Technical Issue"
  /\ AdjustRule(sc).is_regex
  /\ AdjustRule(sc).weight = 3
  /\ sc.side = "subject"
  /\ SplitLen(sc.subject) = 3
  /\ sc.n_s = 1
  /\ sc.n_b = 1
  /\ sc.amount = 1392

---------------------------------------------------------------------------
Overridden == sc.phase = "scored" /\ sc.kind = "override"

\* what the case's ticket was built to contain
BuiltHelp(c) == c.help # "none"

BuiltHardCue(c) == c.tech # "none"

BuiltCueNearHelp(c) == c.help # "none" /\ c.cue # 0 /\ c.dist <= 4

BuiltOverride(c) == BuiltHelp(c) /\ BuiltHardCue(c) /\ ~BuiltCueNearHelp(c)

---------------------------------------------------------------------------
\* the observed predictions made with a fitted two-class model that has no
\* predict_proba
BinaryPlain ==
  { o \in Observed :
      /\ HasModel(o)
      /\ o.model[1].fitted
      /\ o.model[2].fitted
      /\ o.model[2].kind = "plain"
      /\ o.model[2].n_classes = 2 }

\* C15: with two trained classes and no predict_proba, the logistic
\* transform of the margin d, 1 / (1 + e^-d), is the probability of the
\* class with encoded index 1 and its complement that of the class with
\* encoded index 0, so for d # 0 the topic with the larger statistical
\* probability is the topic the decision function predicts
C15_BinaryMappingKept ==
  \A o \in BinaryPlain :
    LET raw == RawOutput(o.model[2], o.cid)
        classes == o.model[3]
        ml == o.p.ml_probs
    IN  /\ ml.num[classes[2]] * (raw[1] + raw[2]) = raw[1] * ml.den
        /\ ml.num[classes[1]] * (raw[1] + raw[2]) = raw[2] * ml.den
        /\ raw[1] # raw[2] => ArgMax(ml) = DecisionPredicts(classes, raw)

\* a two-class model without predict_proba has a positive margin for a
\* ticket, so that it predicts the class of encoded index 1, and the
\* prediction returned for the ticket is the class of encoded index 0, with
\* the confidence 1 / (1 + e^-d)
C15_Witness ==
  \E o \in BinaryPlain :
    LET raw == RawOutput(o.model[2], o.cid)
        classes == o.model[3]
    IN  /\ raw[1] > raw[2]
        /\ DecisionPredicts(classes, raw) = classes[2]
        /\ o.p.source = "ml"
        /\ o.p.predicted_topic = classes[1]
        /\ o.p.confidence * (raw[1] + raw[2]) = raw[1] * o.p.probs.den

---------------------------------------------------------------------------
\* row i's prediction when the rows are predicted one after the other with
\* the model as training left it
Sequential(i) ==
  predict_probabilities(tasks[i].trained[2], tasks[i].trained[1],
                        tasks[i].trained[3], df[i])

\* C16: a prediction leaves vectorizer, label encoder and classifier as
\* they are, and whatever the order and interleaving of the predictions of
\* a batch, every ticket gets the result of the sequential order, which
\* depends on the trained model and the ticket's own subject and body
\* only: the same ticket at two places of the batch gets the same result
C16_OrderIndependent ==
  /\ \A i \in 1..Len(tasks) :
       /\ tasks[i].trained = object
       /\ tasks[i].pc = "done" => tasks[i].prediction = Sequential(i)
       /\ \A j \in 1..Len(tasks) :
            tasks[i].pc = "done" /\ tasks[j].pc = "done" /\ df[i] = df[j]
              => tasks[i].prediction = tasks[j].prediction
  /\ pc = "predict" /\ tasks # << >> =>
       \A i \in 1..Len(results) : results[i].prediction = Sequential(i)

\* the third row of a batch has its result before the first row was begun,
\* the second row stands between its two steps, and the result was taken
\* from a fitted model
C16_Witness ==
  /\ pc = "parallel"
  /\ Len(tasks) = 3
  /\ tasks[3].pc = "done"
  /\ tasks[2].pc = "scored"
  /\ tasks[1].pc = "new"
  /\ tasks[3].prediction.source = "ml"
  /\ tasks[3].prediction = Sequential(3)

---------------------------------------------------------------------------
\* train_ml_classifier has ended with an exception: classify_tickets raised
\* before its loop gave any result
TrainingFailed == pc = "idle" /\ outcome = "raised" /\ results = << >>

\* what a TicketClassifier that was never trained returns for a row
NeverTrained(cid) == predict_probabilities(NoObject, NoObject, << >>, cid)

\* C17: after train_ml_classifier has ended with an exception the object
\* holds no model that predict_probabilities would use, and a later
\* predict_probabilities on the same object completes and returns the
\* heuristic distribution, as on an object that was never trained
C17_NoHalfBuiltModel ==
  TrainingFailed =>
    /\ ~ModelPresent(ml_classifier, vectorizer)
    /\ last.cid # 0 =>
         /\ last.prediction.status = "ok"
         /\ last.prediction = NeverTrained(last.cid)

\* both fits of the classifier have failed, the object is left with a
\* fitted vectorizer and an unfitted LinearSVC, and predict_probabilities
\* called on it afterwards raised NotFittedError
C17_Witness ==
  /\ TrainingFailed
  /\ vectorizer.fitted
  /\ ml_classifier.kind = "plain"
  /\ ~ml_classifier.fitted
  /\ last.cid # 0
  /\ last.prediction.status = "NotFittedError"
  /\ NeverTrained(last.cid).status = "ok"

====
